---- MODULE Spec2Model ----
(***************************************************************************)
(* Minimal Expense Tracker (src/expenses/src/app/page.tsx): the Home       *)
(* component's record store, its localStorage slot, the draft validation   *)
(* of handleSubmit and the derived timeline (filteredExpenses).            *)
(*                                                                         *)
(* Texts are sequences of one-character strings, so that trim,             *)
(* toLowerCase, includes, startsWith, localeCompare and parseFloat are     *)
(* computed character by character.  JavaScript values carry their typeof  *)
(* in the field t.  Numbers are counted in thousandths (1.25 is 1250).     *)
(***************************************************************************)
EXTENDS Integers, Sequences, FiniteSets, TLC

(***************************************************************************)
(* Bounds of the model.                                                    *)
(***************************************************************************)
\* successful submissions in one session (caps the id and clock counter)
MaxSubmits == 2
\* elements of the array a pre-existing slot may hold
MaxSlotLen == 2

(***************************************************************************)
(* JavaScript values.                                                      *)
(***************************************************************************)
Undefined == [t |-> "undefined"]
Null == [t |-> "null"]
NaN == [t |-> "nan"]
Str(s) == [t |-> "string", v |-> s]
Num(n) == [t |-> "number", v |-> n]
Obj(p) == [t |-> "object", p |-> p]

\* typeof x
TypeOf(x) ==
  CASE x.t = "string" -> "string"
    [] x.t \in {"number", "nan"} -> "number"
    [] x.t = "undefined" -> "undefined"
    [] OTHER -> "object"

\* o.f for an object's property record o: undefined when o has no property f
Get(o, f) == IF f \in DOMAIN o THEN o[f] ELSE Undefined

(***************************************************************************)
(* Texts.                                                                  *)
(***************************************************************************)
\* the characters of the model's texts, in code unit order
Alphabet ==
  << " ", "-", ".", "0", "1", "2", "3", "4", "5", "6", "7", "8", "9",
     "F", "L", "O", "T", "U", "Z",
     "a", "b", "c", "d", "e", "f", "h", "i", "l", "n", "o", "r", "t", "u",
     "x", "z" >>

CodeOf == [c \in {Alphabet[i] : i \in 1..Len(Alphabet)} |->
             CHOOSE i \in 1..Len(Alphabet) : Alphabet[i] = c]

Digits == <<"0", "1", "2", "3", "4", "5", "6", "7", "8", "9">>
IsDigit(c) == \E i \in 1..10 : Digits[i] = c
DigitVal(c) == (CHOOSE i \in 1..10 : Digits[i] = c) - 1

LowerOf(c) ==
  CASE c = "F" -> "f" [] c = "L" -> "l" [] c = "O" -> "o"
    [] c = "T" -> "t" [] c = "U" -> "u" [] c = "Z" -> "z"
    [] OTHER -> c

\* String.prototype.toLowerCase
toLowerCase(s) == [i \in 1..Len(s) |-> LowerOf(s[i])]

\* String.prototype.trim
RECURSIVE TrimStart(_)
TrimStart(s) == IF s # <<>> /\ Head(s) = " " THEN TrimStart(Tail(s)) ELSE s
RECURSIVE TrimEnd(_)
TrimEnd(s) ==
  IF s # <<>> /\ s[Len(s)] = " " THEN TrimEnd(SubSeq(s, 1, Len(s) - 1)) ELSE s
trim(s) == TrimEnd(TrimStart(s))

\* String.prototype.startsWith
startsWith(s, prefix) ==
  /\ Len(prefix) <= Len(s)
  /\ \A i \in 1..Len(prefix) : s[i] = prefix[i]

\* String.prototype.includes
includes(s, needle) ==
  \E k \in 0..(Len(s) - Len(needle)) :
    \A i \in 1..Len(needle) : s[k + i] = needle[i]

\* String.prototype.slice(0, n)
slice0(s, n) == SubSeq(s, 1, IF n < Len(s) THEN n ELSE Len(s))

\* a.localeCompare(b): -1, 0 or 1.  The texts compared are dates and
\* timestamps (digits and punctuation), where the collation order is the
\* code unit order.
RECURSIVE localeCompare(_, _)
localeCompare(a, b) ==
  CASE a = <<>> /\ b = <<>> -> 0
    [] a = <<>> /\ b # <<>> -> -1
    [] a # <<>> /\ b = <<>> -> 1
    [] OTHER ->
         IF Head(a) = Head(b) THEN localeCompare(Tail(a), Tail(b))
         ELSE IF CodeOf[Head(a)] < CodeOf[Head(b)] THEN -1 ELSE 1

(***************************************************************************)
(* Numbers: Number.parseFloat, Number.isFinite, toFixed(2), Number.        *)
(***************************************************************************)
\* the number of leading decimal digits of s
RECURSIVE DigitRun(_)
DigitRun(s) ==
  IF s # <<>> /\ IsDigit(Head(s)) THEN 1 + DigitRun(Tail(s)) ELSE 0

\* the value of a digit text (0 for the empty text)
RECURSIVE DigitsValue(_)
DigitsValue(s) ==
  IF s = <<>> THEN 0
  ELSE 10 * DigitsValue(SubSeq(s, 1, Len(s) - 1)) + DigitVal(s[Len(s)])

\* thousandths of a fraction's digit text; the model's texts hold at most
\* three decimals
Thousandths(f) ==
  DigitsValue(slice0(f \o <<"0", "0", "0">>, 3))

\* Number.parseFloat(text): leading white space is skipped, then the longest
\* prefix [-]digits[.digits] is read; NaN when it holds no digit.  (The
\* alphabet has no exponent and no Infinity.)
parseFloat(text) ==
  LET s == TrimStart(text)
      neg == s # <<>> /\ Head(s) = "-"
      u == IF neg THEN Tail(s) ELSE s
      ni == DigitRun(u)
      afterInt == SubSeq(u, ni + 1, Len(u))
      hasDot == afterInt # <<>> /\ Head(afterInt) = "."
      nf == IF hasDot THEN DigitRun(Tail(afterInt)) ELSE 0
      mag == 1000 * DigitsValue(SubSeq(u, 1, ni))
               + (IF hasDot THEN Thousandths(SubSeq(afterInt, 2, nf + 1)) ELSE 0)
  IN IF ni = 0 /\ nf = 0 THEN NaN
     ELSE Num(IF neg THEN 0 - mag ELSE mag)

\* Number.isFinite(x)
isFinite(x) == x.t = "number"

\* the decimal digits of a natural number
RECURSIVE NatText(_)
NatText(n) ==
  IF n < 10 THEN <<Digits[n + 1]>>
  ELSE NatText(n \div 10) \o <<Digits[(n % 10) + 1]>>

\* x.toFixed(2) for x >= 0: the nearest number of hundredths, as text.  A
\* third decimal of 5 is a tie only in decimal notation (the double decides
\* it); the model's amount texts hold none.
toFixed2(x) ==
  LET cents == (x.v + 5) \div 10
  IN NatText(cents \div 100) \o <<".">>
       \o <<Digits[((cents \div 10) % 10) + 1], Digits[(cents % 10) + 1]>>

\* Number(text) for the texts toFixed yields
Number(text) == parseFloat(text)

(***************************************************************************)
(* Dates: Date.parse and toISOString.                                      *)
(***************************************************************************)
\* Number.isNaN(Date.parse(text)): the date input yields "" or yyyy-mm-dd;
\* a text of another shape, or with a month outside 01..12 or a day outside
\* 01..31, does not parse.
DateParseIsNaN(text) ==
  ~ /\ Len(text) = 10
    /\ text[5] = "-" /\ text[8] = "-"
    /\ \A i \in {1, 2, 3, 4, 6, 7, 9, 10} : IsDigit(text[i])
    /\ DigitsValue(SubSeq(text, 6, 7)) \in 1..12
    /\ DigitsValue(SubSeq(text, 9, 10)) \in 1..31

\* new Date().toISOString().slice(0, 10) at mount
todayIso == <<"2", "0", "2", "4", "-", "0", "4", "-", "0", "1">>

\* new Date().toISOString() at the n-th tick of the session's clock: the
\* time of day is abbreviated to the tick, in fixed width
toISOString(n) == todayIso \o <<"T">> \o NatText(n) \o <<"Z">>

\* crypto.randomUUID(): version 4 UUIDs are taken not to collide, neither
\* with one another nor with the ids already in the slot
randomUUID(n) == <<"u">> \o NatText(n)

(***************************************************************************)
(* JSON and the durable slot (window.localStorage under STORAGE_KEY).      *)
(***************************************************************************)
Arr(a) == [t |-> "array", a |-> a]

\* contents of the slot: no item, the empty text, a text JSON.parse
\* rejects, or the JSON text of a value
NoItem == [k |-> "none"]
EmptyText == [k |-> "empty"]
Garbage == [k |-> "garbage"]
Json(v) == [k |-> "json", v |-> v]

\* JSON.stringify of one object if undefined were written as null
StringifyObjectNulls(p) ==
  Obj([f \in DOMAIN p |-> IF p[f].t \in {"undefined", "nan"} THEN Null ELSE p[f]])

\* JSON.stringify of one object: properties holding undefined are left out,
\* NaN is written as null
StringifyObject(p) ==
  LET keep == {f \in DOMAIN p : p[f].t # "undefined"}
  IN Obj([f \in keep |-> IF p[f].t = "nan" THEN Null ELSE p[f]])

\* JSON.stringify(expenses)
JSONstringify(list) ==
  Json(Arr([i \in 1..Len(list) |-> StringifyObject(list[i])]))

\* JSON.parse(raw) throws a SyntaxError
JSONparseThrows(raw) == raw.k = "garbage"

\* JSON.parse(raw)
JSONparse(raw) == raw.v

(***************************************************************************)
(* The texts and records the model draws its inputs from.                  *)
(***************************************************************************)
Empty == <<>>
Blank == <<" ">>
Food == <<"F", "o", "o", "d">>
Other == <<"O", "t", "h", "e", "r">>
All == <<"a", "l", "l">>
March1 == <<"2", "0", "2", "4", "-", "0", "3", "-", "0", "1">>
March2 == <<"2", "0", "2", "4", "-", "0", "3", "-", "0", "2">>
March == <<"2", "0", "2", "4", "-", "0", "3">>

\* a record written by an earlier session
RecA ==
  Obj([id |-> Str(<<"a">>), description |-> Str(<<"L", "u">>),
       category |-> Str(Food), amount |-> Num(10000), date |-> Str(March1),
       createdAt |-> Str(March1 \o <<"T", "0", "Z">>)])
\* a second record under the same id, with a note
RecA2 ==
  Obj([id |-> Str(<<"a">>), description |-> Str(<<"t", "e", "a">>),
       category |-> Str(Other), amount |-> Num(20000), date |-> Str(March2),
       note |-> Str(<<"L", "u">>),
       createdAt |-> Str(March2 \o <<"T", "0", "Z">>)])
\* a record without createdAt
RecB ==
  Obj([id |-> Str(<<"b">>), description |-> Str(<<"b", "u", "n">>),
       category |-> Str(Food), amount |-> Num(30000), date |-> Str(March1)])
\* a record whose note is a number
RecN ==
  Obj([id |-> Str(<<"n">>), description |-> Str(<<"t", "e", "a">>),
       category |-> Str(Food), amount |-> Num(40000), date |-> Str(March2),
       note |-> Num(5000),
       createdAt |-> Str(March2 \o <<"T", "1", "Z">>)])
\* {id: 1, amount: "5"}
RecBad == Obj([id |-> Num(1000), amount |-> Str(<<"5">>)])

SlotElems == {Null, Num(5000), RecBad, RecA, RecA2, RecB, RecN}

SlotArrays ==
  UNION {[1..n -> SlotElems] : n \in 0..MaxSlotLen}

\* what the slot may hold when the page is opened
SlotContents ==
  {NoItem, EmptyText, Garbage, Json(Null), Json(Obj([id |-> Str(<<"a">>)]))}
    \cup {Json(Arr(a)) : a \in SlotArrays}

(***************************************************************************)
(* The load effect (lines 69-95).                                          *)
(***************************************************************************)
\* the predicate of parsed.filter (lines 79-87); it is evaluated on objects
\* and primitives, on which a property access never throws
IsExpense(item) ==
  /\ item.t = "object"
  /\ TypeOf(Get(item.p, "id")) = "string"
  /\ TypeOf(Get(item.p, "description")) = "string"
  /\ TypeOf(Get(item.p, "category")) = "string"
  /\ TypeOf(Get(item.p, "amount")) = "number"
  /\ TypeOf(Get(item.p, "date")) = "string"

\* item.id throws a TypeError on null
PropertyAccessThrows(item) == item.t \in {"null", "undefined"}

\* insertion of x behind the records the comparator of line 88 does not
\* put after it (Array.prototype.sort is stable)
RECURSIVE InsertByDate(_, _)
InsertByDate(r, x) ==
  IF r = <<>> THEN <<x>>
  ELSE IF localeCompare(Head(r).date.v, x.date.v) < 0 THEN <<x>> \o r
  ELSE <<Head(r)>> \o InsertByDate(Tail(r), x)

\* list.sort((a, b) => b.date.localeCompare(a.date))
RECURSIVE SortByDate(_)
SortByDate(list) ==
  IF list = <<>> THEN <<>>
  ELSE InsertByDate(SortByDate(SubSeq(list, 1, Len(list) - 1)), list[Len(list)])

\* the objects of a parsed array that pass the filter, as property records
FilterExpenses(a) ==
  LET kept == SelectSeq(a, IsExpense)
  IN [i \in 1..Len(kept) |-> kept[i].p]

\* the load effect on the slot content raw: whether setExpenses is called,
\* with which list, whether an exception was caught by the catch of line
\* 92, and whether one escaped the effect
loadEffect(raw) ==
  LET none == [set |-> FALSE, value |-> <<>>, caught |-> FALSE, escaped |-> FALSE]
  IN IF raw.k \in {"none", "empty"} THEN none
     ELSE IF JSONparseThrows(raw) THEN [none EXCEPT !.caught = TRUE]
     ELSE LET parsed == JSONparse(raw)
          IN IF parsed.t # "array" THEN none
             ELSE IF \E i \in 1..Len(parsed.a) : PropertyAccessThrows(parsed.a[i])
                  THEN [none EXCEPT !.caught = TRUE]
             ELSE [none EXCEPT !.set = TRUE,
                               !.value = SortByDate(FilterExpenses(parsed.a))]

(***************************************************************************)
(* The timeline: filteredExpenses (lines 102-127).                         *)
(***************************************************************************)
\* String(x) of a createdAt that is no text
ToText(x) ==
  CASE x.t = "string" -> x.v
    [] x.t = "null" -> <<"n", "u", "l", "l">>
    [] OTHER -> <<"u", "n", "d", "e", "f", "i", "n", "e", "d">>

\* expense.note?.toLowerCase() throws: the note is neither nullish nor a text
NoteThrows(e) == Get(e, "note").t \notin {"undefined", "null", "string"}

\* the search predicate of lines 113-119 on one record
MatchesSearch(e, needle) ==
  \/ includes(toLowerCase(e.description.v), needle)
  \/ /\ Get(e, "note").t = "string"
     /\ includes(toLowerCase(e.note.v), needle)

\* the search predicate throws on e: the description does not match, so the
\* note is looked at
SearchThrows(e, needle) ==
  /\ ~includes(toLowerCase(e.description.v), needle)
  /\ NoteThrows(e)

\* lines 103-105
byMonth(list, m) == SelectSeq(list, LAMBDA e : startsWith(e.date.v, m))

\* lines 107-110
byCategory(list, m, c) ==
  IF c = All THEN byMonth(list, m)
  ELSE SelectSeq(byMonth(list, m), LAMBDA e : e.category = Str(c))

\* lines 112-120 with the needle left untrimmed
bySearchUntrimmed(list, m, c, term) ==
  IF trim(term) # <<>>
  THEN SelectSeq(byCategory(list, m, c),
                 LAMBDA e : MatchesSearch(e, toLowerCase(term)))
  ELSE byCategory(list, m, c)

\* lines 112-120
bySearch(list, m, c, term) ==
  IF trim(term) # <<>>
  THEN SelectSeq(byCategory(list, m, c),
                 LAMBDA e : MatchesSearch(e, toLowerCase(trim(term))))
  ELSE byCategory(list, m, c)

\* the filter of lines 112-120 throws on some record it reaches
FilterThrows(list, m, c, term) ==
  /\ trim(term) # <<>>
  /\ \E i \in 1..Len(byCategory(list, m, c)) :
       SearchThrows(byCategory(list, m, c)[i], toLowerCase(trim(term)))

\* the comparator of lines 122-126
compareTimeline(a, b) ==
  IF a.date = b.date
  THEN localeCompare(ToText(Get(b, "createdAt")), ToText(Get(a, "createdAt")))
  ELSE localeCompare(b.date.v, a.date.v)

\* b.createdAt.localeCompare throws: b.createdAt is no text
CompareThrows(a, b) ==
  a.date = b.date /\ Get(b, "createdAt").t # "string"

\* stable insertion of x, the later element, into the sorted list r; the
\* comparator is called as comparefn(x, placed)
RECURSIVE InsertTimeline(_, _)
InsertTimeline(r, x) ==
  IF r = <<>> THEN [threw |-> FALSE, items |-> <<x>>]
  ELSE IF CompareThrows(x, Head(r)) THEN [threw |-> TRUE, items |-> <<>>]
  ELSE IF compareTimeline(x, Head(r)) < 0
       THEN [threw |-> FALSE, items |-> <<x>> \o r]
  ELSE LET rest == InsertTimeline(Tail(r), x)
       IN IF rest.threw THEN rest
          ELSE [threw |-> FALSE, items |-> <<Head(r)>> \o rest.items]

\* [...list].sort(comparator)
RECURSIVE SortTimeline(_)
SortTimeline(list) ==
  IF list = <<>> THEN [threw |-> FALSE, items |-> <<>>]
  ELSE LET front == SortTimeline(SubSeq(list, 1, Len(list) - 1))
       IN IF front.threw THEN front
          ELSE InsertTimeline(front.items, list[Len(list)])

\* filteredExpenses for a store and the filter criteria: the list, or threw
filteredExpenses(list, m, c, term) ==
  IF FilterThrows(list, m, c, term) THEN [threw |-> TRUE, items |-> <<>>]
  ELSE SortTimeline(bySearch(list, m, c, term))

(***************************************************************************)
(* The totals (lines 129-158): the aggregation by category, topCategory.   *)
(***************************************************************************)
ProtoKey == <<"_", "_", "p", "r", "o", "t", "o", "_", "_">>

\* the property key k is an array index: the canonical decimal text of an
\* integer (the model's keys are far below 2^32 - 1)
IsArrayIndex(k) ==
  /\ k # <<>>
  /\ \A i \in 1..Len(k) : IsDigit(k[i])
  /\ (Len(k) > 1 => k[1] # "0")

\* one step of the reduce of lines 132-138 on acc, the own properties of
\* the accumulator in the order of their creation.  Under the key __proto__
\* the read gives Object.prototype and the write, of a text, is ignored by
\* the setter: the accumulator is unchanged.  (Names of other properties
\* of Object.prototype are not among the model's categories.)
AddToCategory(acc, e) ==
  IF e.category.v = ProtoKey THEN acc
  ELSE IF \E i \in 1..Len(acc) : acc[i].name = e.category.v
  THEN [i \in 1..Len(acc) |->
          IF acc[i].name = e.category.v
          THEN [acc[i] EXCEPT !.amount = @ + e.amount.v]
          ELSE acc[i]]
  ELSE Append(acc, [name |-> e.category.v, amount |-> e.amount.v])

\* filteredExpenses.reduce(..., {}), lines 132-138
RECURSIVE byCategoryTotals(_)
byCategoryTotals(items) ==
  IF items = <<>> THEN <<>>
  ELSE AddToCategory(byCategoryTotals(SubSeq(items, 1, Len(items) - 1)),
                     items[Len(items)])

\* insertion of an array index key by its numeric value
RECURSIVE InsertIndexKey(_, _)
InsertIndexKey(r, x) ==
  IF r = <<>> THEN <<x>>
  ELSE IF DigitsValue(x.name) < DigitsValue(Head(r).name) THEN <<x>> \o r
  ELSE <<Head(r)>> \o InsertIndexKey(Tail(r), x)

RECURSIVE SortIndexKeys(_)
SortIndexKeys(acc) ==
  IF acc = <<>> THEN <<>>
  ELSE InsertIndexKey(SortIndexKeys(SubSeq(acc, 1, Len(acc) - 1)), acc[Len(acc)])

\* Object.entries(byCategory): the array index keys in ascending numeric
\* order, then the other keys in the order of their creation
ObjectEntries(acc) ==
  SortIndexKeys(SelectSeq(acc, LAMBDA x : IsArrayIndex(x.name)))
    \o SelectSeq(acc, LAMBDA x : ~IsArrayIndex(x.name))

\* stable insertion for the comparator (a, b) => b[1] - a[1]
RECURSIVE InsertByAmount(_, _)
InsertByAmount(r, x) ==
  IF r = <<>> THEN <<x>>
  ELSE IF Head(r).amount - x.amount < 0 THEN <<x>> \o r
  ELSE <<Head(r)>> \o InsertByAmount(Tail(r), x)

\* entries.sort((a, b) => b[1] - a[1])
RECURSIVE SortByAmount(_)
SortByAmount(es) ==
  IF es = <<>> THEN <<>>
  ELSE InsertByAmount(SortByAmount(SubSeq(es, 1, Len(es) - 1)), es[Len(es)])

\* totals.topCategory for the timeline items (lines 146-156)
topCategory(items) ==
  LET sorted == SortByAmount(ObjectEntries(byCategoryTotals(items)))
  IN IF sorted = <<>> THEN Null ELSE sorted[1]

(***************************************************************************)
(* Validation and normalisation of the draft (handleSubmit, lines 160-190).*)
(***************************************************************************)
NoError == "null"
EmptyDescription == "Add a short description to remember the expense."
InvalidAmount == "Amount should be a positive number."
InvalidDate == "Choose a valid date."

\* line 165
DescriptionFails(d) == trim(d.description) = <<>>

\* line 171
AmountFails(d) ==
  \/ ~isFinite(parseFloat(d.amount))
  \/ parseFloat(d.amount).v <= 0

\* line 177
DateFails(d) == d.date = <<>> \/ DateParseIsNaN(d.date)

\* the rules with the amount checked before the description
ValidateAmountFirst(d) ==
  IF AmountFails(d) THEN InvalidAmount
  ELSE IF DescriptionFails(d) THEN EmptyDescription
  ELSE IF DateFails(d) THEN InvalidDate
  ELSE NoError

\* the message handleSubmit leaves in error for the draft d
Validate(d) ==
  IF DescriptionFails(d) THEN EmptyDescription
  ELSE IF AmountFails(d) THEN InvalidAmount
  ELSE IF DateFails(d) THEN InvalidDate
  ELSE NoError

\* amount: Number(amountValue.toFixed(2)), line 186
StoredAmount(d) == Number(toFixed2(parseFloat(d.amount)))

\* the payload of lines 182-190 for an accepted draft, at the n-th
\* submission of the session
Payload(d, n) ==
  [id |-> Str(randomUUID(n)),
   description |-> Str(trim(d.description)),
   category |-> Str(IF d.category = <<>> THEN Other ELSE d.category),
   amount |-> StoredAmount(d),
   date |-> Str(d.date),
   note |-> IF trim(d.note) = <<>> THEN Undefined ELSE Str(trim(d.note)),
   createdAt |-> Str(toISOString(n))]

\* the draft after an accepted submission (lines 193-199)
ClearedDraft(d) ==
  [description |-> <<>>, category |-> d.category, amount |-> <<>>,
   date |-> d.date, note |-> <<>>]

\* the draft at mount (lines 57-63) and after "Reset form" (lines 398-406)
InitialDraft ==
  [description |-> <<>>, category |-> <<>>, amount |-> <<>>,
   date |-> todayIso, note |-> <<>>]

MkDraft(desc, cat, amt, date, note) ==
  [description |-> desc, category |-> cat, amount |-> amt, date |-> date,
   note |-> note]

\* what the user may have typed into the form before a submission
Drafts ==
  { MkDraft(<<" ", "L", "u", " ">>, Empty, <<"1", "2", ".", "3", "4", "6">>,
            March1, Blank),
    MkDraft(<<"t", "e", "a">>, Food, <<"0", ".", "0", "0", "4">>,
            todayIso, <<"L", "u">>),
    MkDraft(<<"b", "u", "n">>, Food, <<" ", "7", ".", "1", "x">>,
            March1, Empty),
    MkDraft(Blank, Food, <<"a", "b", "c">>, Empty, Empty),
    MkDraft(<<"t", "e", "a">>, Food, <<"a", "b", "c">>, Empty, Empty),
    MkDraft(<<"t", "e", "a">>, Food, <<"0">>, March1, Empty),
    MkDraft(<<"t", "e", "a">>, Empty, <<"-", "5">>, March1, Empty),
    MkDraft(<<"t", "e", "a">>, Food, <<"2", "0">>, Empty, Empty),
    MkDraft(<<"t", "e", "a">>, Food, <<"2", "0">>,
            <<"2", "0", "2", "4", "-", "1", "3", "-", "0", "1">>, Empty) }

\* the values of the filter controls
Months == {Empty, March, slice0(todayIso, 7)}
Categories == {All, Food, Other}
SearchTerms == {Empty, Blank, <<"L", "U", " ">>, <<"t", "e">>}

(***************************************************************************)
(* The state of the Home component and of the slot.                        *)
(***************************************************************************)
VARIABLES
  storage,         \* window.localStorage under STORAGE_KEY
  expenses,        \* useState, line 56
  draft,           \* useState, lines 57-63
  month,           \* useState, line 64
  categoryFilter,  \* useState, line 65
  searchTerm,      \* useState, line 66
  error,           \* useState, line 67
  effects,         \* the passive effects of the last commit, not yet run
  transition,      \* the setExpenses of startTransition, not yet committed
  rebase,          \* updaters applied while the transition is pending
  submits          \* accepted submissions so far (ids and clock ticks)

vars == <<storage, expenses, draft, month, categoryFilter, searchTerm, error,
          effects, transition, rebase, submits>>

NoTransition == [pending |-> FALSE, value |-> <<>>]

\* the updater of line 192 with the spread before the payload
appendAtTail(payload, previous) == previous \o <<payload>>

\* the updater of line 192
prepend(payload, previous) == <<payload>> \o previous

\* the updater of line 203 with === for !==
keepById(previous, id) == SelectSeq(previous, LAMBDA e : e.id = Str(id))

\* the updater of line 203
removeById(previous, id) == SelectSeq(previous, LAMBDA e : e.id # Str(id))

\* an updater queued behind the pending transition is applied to the state
\* at once and again, on the transition's value, when the transition commits
ApplyUpdate(u, list) ==
  IF u.op = "prepend" THEN prepend(u.payload, list)
  ELSE removeById(list, u.id)

RECURSIVE ApplyAll(_, _)
ApplyAll(us, list) ==
  IF us = <<>> THEN list ELSE ApplyAll(Tail(us), ApplyUpdate(Head(us), list))

\* the save effect with an empty dependency list: it runs at mount only
EffectsOfEmptyDeps == <<>>

\* the effects whose dependencies include expenses (line 100)
ExpensesEffects == <<"save">>

\* the render of the current state computes the timeline
Alive == ~filteredExpenses(expenses, month, categoryFilter, searchTerm).threw

\* a user event is handled once the pending effects have run
Idle == Alive /\ effects = <<>>

\* the state after the first render, the slot holding one of slots
Mounted(slots) ==
  /\ storage \in slots
  /\ expenses = <<>>
  /\ draft = InitialDraft
  /\ month = slice0(todayIso, 7)
  /\ categoryFilter = All
  /\ searchTerm = <<>>
  /\ error = NoError
  /\ effects = <<"load", "save">>
  /\ transition = NoTransition
  /\ rebase = <<>>
  /\ submits = 0

\* the effect of lines 69-95
LoadEffect ==
  /\ Alive
  /\ effects # <<>> /\ Head(effects) = "load"
  /\ effects' = Tail(effects)
  /\ LET out == loadEffect(storage)
     IN transition' = IF out.set THEN [pending |-> TRUE, value |-> out.value]
                      ELSE transition
  /\ UNCHANGED <<storage, expenses, draft, month, categoryFilter, searchTerm,
                 error, rebase, submits>>

\* the effect of lines 97-100
SaveEffect ==
  /\ Alive
  /\ effects # <<>> /\ Head(effects) = "save"
  /\ effects' = Tail(effects)
  /\ storage' = JSONstringify(expenses)
  /\ UNCHANGED <<expenses, draft, month, categoryFilter, searchTerm, error,
                 transition, rebase, submits>>

\* the transition of lines 76-90 commits
CommitTransition ==
  /\ Idle
  /\ transition.pending
  /\ expenses' = ApplyAll(rebase, transition.value)
  /\ transition' = NoTransition
  /\ rebase' = <<>>
  /\ effects' = ExpensesEffects
  /\ UNCHANGED <<storage, draft, month, categoryFilter, searchTerm, error,
                 submits>>

\* lines 160-200
handleSubmit ==
  /\ Idle
  /\ IF Validate(draft) # NoError
     THEN /\ error' = Validate(draft)
          /\ UNCHANGED <<storage, expenses, draft, month, categoryFilter,
                         searchTerm, effects, transition, rebase, submits>>
     ELSE /\ submits < MaxSubmits
          /\ error' = NoError
          /\ expenses' = prepend(Payload(draft, submits + 1), expenses)
          /\ rebase' = IF transition.pending
                       THEN Append(rebase, [op |-> "prepend",
                                            payload |-> Payload(draft, submits + 1)])
                       ELSE rebase
          /\ draft' = ClearedDraft(draft)
          /\ submits' = submits + 1
          /\ effects' = ExpensesEffects
          /\ UNCHANGED <<storage, month, categoryFilter, searchTerm, transition>>

\* lines 202-204, from the delete button of a record of the timeline
handleDelete(id) ==
  /\ Idle
  /\ expenses' = removeById(expenses, id)
  /\ rebase' = IF transition.pending
               THEN Append(rebase, [op |-> "remove", id |-> id])
               ELSE rebase
  /\ effects' = ExpensesEffects
  /\ UNCHANGED <<storage, draft, month, categoryFilter, searchTerm, error,
                 transition, submits>>

\* the onChange handlers of the form's fields (lines 289-380), a run of them
\* between two submissions taken as one step
EditDraft(d) ==
  /\ Idle
  /\ draft' = d
  /\ UNCHANGED <<storage, expenses, month, categoryFilter, searchTerm, error,
                 effects, transition, rebase, submits>>

\* "Reset form", lines 396-407
ResetForm ==
  /\ Idle
  /\ draft' = InitialDraft
  /\ UNCHANGED <<storage, expenses, month, categoryFilter, searchTerm, error,
                 effects, transition, rebase, submits>>

\* line 426
SetMonth(m) ==
  /\ Idle
  /\ month' = m
  /\ UNCHANGED <<storage, expenses, draft, categoryFilter, searchTerm, error,
                 effects, transition, rebase, submits>>

\* line 435
SetCategoryFilter(c) ==
  /\ Idle
  /\ categoryFilter' = c
  /\ UNCHANGED <<storage, expenses, draft, month, searchTerm, error, effects,
                 transition, rebase, submits>>

\* the search box
SetSearchTerm(term) ==
  /\ Idle
  /\ searchTerm' = term
  /\ UNCHANGED <<storage, expenses, draft, month, categoryFilter, error,
                 effects, transition, rebase, submits>>

\* lines 206-210
resetFilters ==
  /\ Idle
  /\ month' = slice0(todayIso, 7)
  /\ categoryFilter' = All
  /\ searchTerm' = <<>>
  /\ UNCHANGED <<storage, expenses, draft, error, effects, transition, rebase,
                 submits>>

\* the ids of the records the timeline shows
TimelineIds ==
  LET t == filteredExpenses(expenses, month, categoryFilter, searchTerm).items
  IN {t[i].id.v : i \in 1..Len(t)}

(***************************************************************************)
(* Spec: a session with every handler, on few slots, drafts and criteria.  *)
(***************************************************************************)
SessionSlots == {NoItem, Json(Arr(<<RecA>>)), Json(Arr(<<RecA2, RecB>>))}
SessionDrafts ==
  {d \in Drafts : d.description \in {<<" ", "L", "u", " ">>, <<"b", "u", "n">>, Blank}}
SessionMonths == {March, slice0(todayIso, 7)}
SessionCategories == {All, Food}
SessionTerms == {Empty, <<"L", "U", " ">>}

Init == Mounted(SessionSlots)

Next ==
  \/ LoadEffect
  \/ SaveEffect
  \/ CommitTransition
  \/ handleSubmit
  \/ \E id \in TimelineIds : handleDelete(id)
  \/ \E d \in SessionDrafts : EditDraft(d)
  \/ ResetForm
  \/ \E m \in SessionMonths : SetMonth(m)
  \/ \E c \in SessionCategories : SetCategoryFilter(c)
  \/ \E term \in SessionTerms : SetSearchTerm(term)
  \/ resetFilters

Spec == Init /\ [][Next]_vars

(***************************************************************************)
(* SpecView: every slot content and every filter criteria, no submission.  *)
(***************************************************************************)
InitView == Mounted(SlotContents)

NextView ==
  \/ LoadEffect
  \/ SaveEffect
  \/ CommitTransition
  \/ \E id \in TimelineIds : handleDelete(id)
  \/ \E m \in Months : SetMonth(m)
  \/ \E c \in Categories : SetCategoryFilter(c)
  \/ \E term \in SearchTerms : SetSearchTerm(term)
  \/ resetFilters

SpecView == InitView /\ [][NextView]_vars

(***************************************************************************)
(* SpecForm: every draft, on an empty or one-record slot, default filters. *)
(***************************************************************************)
InitForm == Mounted({NoItem, Json(Arr(<<RecA>>))})

NextForm ==
  \/ LoadEffect
  \/ SaveEffect
  \/ CommitTransition
  \/ handleSubmit
  \/ \E id \in TimelineIds : handleDelete(id)
  \/ \E d \in Drafts : EditDraft(d)
  \/ ResetForm

SpecForm == InitForm /\ [][NextForm]_vars

(***************************************************************************)
(* SpecTotals: slots whose records tie in amount, under categories that    *)
(* are a palette name, a typed number and __proto__ (the category field    *)
(* of the form is free text, lines 303-312).                               *)
(***************************************************************************)
TotalsRecord(id, category, amount, date) ==
  Obj([id |-> Str(id), description |-> Str(<<"t", "e", "a">>),
       category |-> Str(category), amount |-> Num(amount), date |-> Str(date),
       createdAt |-> Str(date \o <<"T", "0", "Z">>)])

TotalsElems ==
  { TotalsRecord(<<"f">>, Food, 10000, March2),
    TotalsRecord(<<"s">>, <<"7">>, 10000, March1),
    TotalsRecord(<<"o">>, Other, 20000, March1),
    TotalsRecord(<<"p">>, ProtoKey, 10000, March1) }

TotalsSlots ==
  {Json(Arr(a)) : a \in UNION {[1..n -> TotalsElems] : n \in 0..MaxSlotLen}}

InitTotals == Mounted(TotalsSlots)

NextTotals ==
  \/ LoadEffect
  \/ SaveEffect
  \/ CommitTransition
  \/ \E id \in TimelineIds : handleDelete(id)
  \/ \E m \in Months : SetMonth(m)
  \/ \E c \in Categories : SetCategoryFilter(c)

SpecTotals == InitTotals /\ [][NextTotals]_vars

(***************************************************************************)
(* Notions the properties are stated in.                                   *)
(***************************************************************************)
ExpenseFields ==
  {"id", "description", "category", "amount", "date", "note", "createdAt"}

\* the field values of a record, an absent field reading as undefined
FieldValues(e) == [f \in ExpenseFields |-> Get(e, f)]

\* how many records of list have the field values v
Count(list, v) == Cardinality({i \in 1..Len(list) : FieldValues(list[i]) = v})

\* a and b hold the same records, each as many times
SameRecords(a, b) ==
  /\ Len(a) = Len(b)
  /\ \A i \in 1..Len(a) : Count(a, FieldValues(a[i])) = Count(b, FieldValues(a[i]))

\* the ids of a list's records
IdsOf(list) == {list[i].id : i \in 1..Len(list)}

\* the first record of list with the id (Array.prototype.find), or undefined
FindById(list, id) ==
  IF id \in IdsOf(list)
  THEN list[CHOOSE i \in 1..Len(list) :
              list[i].id = id /\ \A j \in 1..(i - 1) : list[j].id # id]
  ELSE Undefined

\* r is s with some elements left out, the others in their order
RECURSIVE IsSubsequence(_, _)
IsSubsequence(r, s) ==
  IF r = <<>> THEN TRUE
  ELSE IF s = <<>> THEN FALSE
  ELSE IF Head(r) = Head(s) THEN IsSubsequence(Tail(r), Tail(s))
  ELSE IsSubsequence(r, Tail(s))

\* the ids a delete may be asked for: those of the slots' records, those
\* generated in the session, and one no record has
IdUniverse ==
  {<<"a">>, <<"b">>, <<"n">>, <<"q">>} \cup {randomUUID(n) : n \in 1..MaxSubmits}

(***************************************************************************)
(* Properties.                                                             *)
(***************************************************************************)

\* C1: once the effects of the last commit have run (no save is pending),
\* the slot holds the serialization of the in-memory record list: no change
\* of the list by a submission, a delete or the load is left unsaved.
C1_WriteThrough ==
  effects = <<>> => storage = JSONstringify(expenses)

\* C1 witness: at rest after two submissions and a delete, the slot holding
\* the remaining record
C1_Witness ==
  /\ effects = <<>> /\ ~transition.pending
  /\ submits = 2 /\ Len(expenses) = 1
  /\ storage = JSONstringify(expenses)

\* C3: saving the record list and loading what was saved gives the same
\* records, with the same field values, each as many times as before (their
\* order may differ).
C3_RoundTrip ==
  LET out == loadEffect(JSONstringify(expenses))
  IN out.set /\ SameRecords(out.value, expenses)

\* C3 witness: a list holding a submitted record without a note, which the
\* load gives back in another order
C3_Witness ==
  /\ \E i \in 1..Len(expenses) :
       /\ expenses[i].id = Str(randomUUID(1))
       /\ Get(expenses[i], "note") = Undefined
  /\ loadEffect(JSONstringify(expenses)).value # expenses

\* C4: a step of handleSubmit that accepts the draft adds exactly one
\* record: the new record, made from the draft under a fresh id, is the
\* head of the list, the records stored before follow it unchanged and in
\* their order, and looking the list up by the new id finds the new record.
C4_AppendAtHead ==
  [][ (handleSubmit /\ submits' = submits + 1) =>
        /\ Validate(draft) = NoError
        /\ Len(expenses') = Len(expenses) + 1
        /\ Tail(expenses') = expenses
        /\ Head(expenses').id = Str(randomUUID(submits'))
        /\ Head(expenses').id \notin IdsOf(expenses)
        /\ Head(expenses').description = Str(trim(draft.description))
        /\ FindById(expenses', Str(randomUUID(submits'))) = Head(expenses')
    ]_vars

\* C4 witness: the record of the latest submission heads a list that held
\* records before
C4_Witness ==
  /\ submits >= 1 /\ Len(expenses) >= 2
  /\ expenses[1].id = Str(randomUUID(submits))

\* C5: for the store of every reachable state and every id, removing the
\* id leaves no record with that id, keeps every other record unchanged and
\* in order, changes nothing when no record has the id, and removing the id
\* once more changes nothing.
C5_Remove ==
  \A id \in IdUniverse :
    LET r == removeById(expenses, id)
    IN /\ Str(id) \notin IdsOf(r)
       /\ IsSubsequence(r, expenses)
       /\ \A i \in 1..Len(expenses) :
            expenses[i].id # Str(id) =>
              Count(r, FieldValues(expenses[i]))
                = Count(expenses, FieldValues(expenses[i]))
       /\ (Str(id) \notin IdsOf(expenses) => r = expenses)
       /\ removeById(r, id) = r

\* C5 witness: the record of the first submission was deleted while other
\* records stay
C5_Witness ==
  /\ submits >= 1
  /\ effects = <<>> /\ ~transition.pending
  /\ Str(randomUUID(1)) \notin IdsOf(expenses)
  /\ expenses # <<>>

\* the entries of the slot content raw the claim calls well-formed: the
\* objects of the array whose id, description, category and date are text
\* and whose amount is a number
WellFormedEntries(raw) ==
  IF raw.k = "json" /\ raw.v.t = "array"
  THEN LET wf == SelectSeq(raw.v.a,
                   LAMBDA x : /\ x.t = "object"
                              /\ \A f \in {"id", "description", "category", "date"} :
                                   Get(x.p, f).t = "string"
                              /\ Get(x.p, "amount").t = "number")
       IN [i \in 1..Len(wf) |-> wf[i].p]
  ELSE <<>>

\* C2: whatever the slot holds, the load effect lets no exception escape
\* and the store it installs (the value handed to setExpenses, or the
\* store as it is when setExpenses is not called) holds exactly the slot's
\* well-formed entries.
C2_LoadKeepsWellFormed ==
  [][ LoadEffect =>
        /\ ~loadEffect(storage).escaped
        /\ SameRecords(IF transition'.pending THEN transition'.value
                       ELSE expenses',
                       WellFormedEntries(storage))
    ]_vars

\* the rules of the claim, each on its own
RuleDescription(d) == trim(d.description) # <<>>
RuleAmount(d) == parseFloat(d.amount).t = "number" /\ parseFloat(d.amount).v > 0
RuleDate(d) == d.date # <<>> /\ ~DateParseIsNaN(d.date)

\* C6: a step of handleSubmit that rejects the draft reports the one
\* reason of the first rule that fails, in the order description, amount,
\* date, and leaves the store, the slot and the draft as they were; a step
\* that accepts the draft is one on which no rule fails.
C6_FirstFailureWins ==
  [][ handleSubmit =>
        IF submits' = submits
        THEN /\ error' = (CASE ~RuleDescription(draft) -> EmptyDescription
                            [] RuleDescription(draft) /\ ~RuleAmount(draft)
                                 -> InvalidAmount
                            [] OTHER -> InvalidDate)
             /\ ~(RuleDescription(draft) /\ RuleAmount(draft) /\ RuleDate(draft))
             /\ UNCHANGED <<expenses, storage, draft, effects, transition, rebase>>
        ELSE RuleDescription(draft) /\ RuleAmount(draft) /\ RuleDate(draft)
    ]_vars

\* C6 witness: a draft that fails the amount rule and the date rule was
\* rejected for its amount
C6_Witness ==
  /\ error = InvalidAmount
  /\ RuleDescription(draft) /\ ~RuleAmount(draft) /\ ~RuleDate(draft)

\* C7: every record stored by a submission has an amount greater than 0
\* with at most two decimals.
C7_StoredAmountPositive ==
  \A i \in 1..Len(expenses) :
    expenses[i].id \in {Str(randomUUID(n)) : n \in 1..MaxSubmits} =>
      /\ expenses[i].amount.t = "number"
      /\ expenses[i].amount.v > 0
      /\ expenses[i].amount.v % 10 = 0

\* C8: no two records of the store have the same id.
C8_UniqueIds ==
  \A i, j \in 1..Len(expenses) : i # j => expenses[i].id # expenses[j].id

\* the records of the store have the types of Expense (lines 11-19)
TypedStore ==
  \A i \in 1..Len(expenses) :
    /\ \A f \in {"id", "description", "category", "date", "createdAt"} :
         Get(expenses[i], f).t = "string"
    /\ Get(expenses[i], "amount").t = "number"
    /\ Get(expenses[i], "note").t \in {"string", "undefined"}

\* the three conditions of the claim on one record
InMonth(e) == month = <<>> \/ slice0(e.date.v, Len(month)) = month
InCategory(e) == categoryFilter = All \/ e.category.v = categoryFilter
InSearch(e) ==
  LET term == toLowerCase(trim(searchTerm))
  IN \/ term = <<>>
     \/ includes(toLowerCase(e.description.v), term)
     \/ /\ Get(e, "note").t = "string"
        /\ includes(toLowerCase(e.note.v), term)

C10_TimelineOrdered ==
  LET t == filteredExpenses(expenses, month, categoryFilter, searchTerm)
  IN /\ ~t.threw
     /\ \A i, j \in 1..Len(t.items) :
          i < j =>
            \/ localeCompare(t.items[i].date.v, t.items[j].date.v) > 0
            \/ /\ t.items[i].date = t.items[j].date
               /\ Get(t.items[i], "createdAt").t = "string"
               /\ Get(t.items[j], "createdAt").t = "string"
               /\ localeCompare(t.items[i].createdAt.v, t.items[j].createdAt.v) >= 0

\* the sum of the amounts of the items under the category c
RECURSIVE CategorySum(_, _)
CategorySum(items, c) ==
  IF items = <<>> THEN 0
  ELSE (IF Head(items).category.v = c THEN Head(items).amount.v ELSE 0)
         + CategorySum(Tail(items), c)

\* the place of the first item under the category c
FirstOf(items, c) ==
  CHOOSE i \in 1..Len(items) :
    /\ items[i].category.v = c
    /\ \A j \in 1..(i - 1) : items[j].category.v # c

\* C11: topCategory is null when the timeline is empty; otherwise it names
\* a category of the timeline with that category's summed amount, no
\* category sums to more, and among the categories that sum to as much it
\* is the one whose first record comes earliest in the timeline.
C11_TopCategory ==
  LET t == filteredExpenses(expenses, month, categoryFilter, searchTerm)
      top == topCategory(t.items)
      cats == {t.items[i].category.v : i \in 1..Len(t.items)}
  IN ~t.threw =>
       IF t.items = <<>> THEN top = Null
       ELSE /\ top # Null
            /\ top.name \in cats
            /\ top.amount = CategorySum(t.items, top.name)
            /\ \A c \in cats : CategorySum(t.items, c) <= top.amount
            /\ \A c \in cats :
                 CategorySum(t.items, c) = top.amount =>
                   FirstOf(t.items, top.name) <= FirstOf(t.items, c)

\* C12: from mount to the commit of the transition that installs the loaded
\* records, the slot omits no well-formed record it held before mount and
\* holds no fewer of them.  While the transition is pending its value is
\* the slot's well-formed records as the load effect read them at mount.
C12_StartupKeepsSlot ==
  transition.pending =>
    LET held == transition.value
        now == WellFormedEntries(storage)
    IN /\ Len(now) >= Len(held)
       /\ \A i \in 1..Len(held) :
            Count(now, FieldValues(held[i])) >= Count(held, FieldValues(held[i]))

====
